---- MODULE Spec2Model ----
(***************************************************************************)
(* Model of the podcast charts' numeric core:                              *)
(*   - regressionLine (DurationCompletionScatter.jsx) and                  *)
(*     calculateRegression (SharesSubscribersScatter), least squares;      *)
(*   - the derivation each scatter chart performs in its render function;  *)
(*   - the zoom/pan viewport of the duration/completion scatter;           *)
(*   - the tooltip placement of the duration/completion scatter.           *)
(* JavaScript numbers are modelled as exact rationals extended with NaN,   *)
(* +-Infinity and undefined (the values a division by zero and d3's        *)
(* min/max/extent of an empty array produce).                              *)
(***************************************************************************)
EXTENDS Integers, Sequences, FiniteSets, TLC

VARIABLES data,           \* the rows passed to the chart (the data prop)
          rendered,       \* which chart is mounted, "none" before
          result,         \* what the last render derived
          zoomLevel,      \* the zoom hook's state: zoom level
          zoomedXDomain,  \*   and the visible x window
          zoomedYDomain,  \*   and the visible y window
          hoveredPoint,   \* useState(null): the hovered point's episode, 0 for null
          pointerOver,    \* the browser: the episode whose circle is under the mouse
                          \*   pointer, 0 when the pointer is over no circle
          focused,        \* the browser: the episode whose circle holds keyboard
                          \*   focus, 0 when no circle does
          lastEvent,      \* the last mount or gesture on the interaction layer (history)
          zoomBefore      \* the zoom level before that gesture (history)

vars == <<data, rendered, result, zoomLevel, zoomedXDomain, zoomedYDomain,
          hoveredPoint, pointerOver, focused, lastEvent, zoomBefore>>

(***************************************************************************)
(* JavaScript numbers                                                      *)
(***************************************************************************)
Abs(i) == IF i < 0 THEN -i ELSE i

Sign(i) == IF i < 0 THEN -1 ELSE IF i > 0 THEN 1 ELSE 0

RECURSIVE GCD(_, _)
GCD(a, b) == IF b = 0 THEN a ELSE GCD(b, a % b)

\* n/d in lowest terms with a positive denominator (d # 0)
Num(n, d) ==
  LET g == GCD(Abs(n), Abs(d))
      s == IF d < 0 THEN -1 ELSE 1
  IN [k |-> "num", n |-> (s * n) \div g, d |-> Abs(d) \div g]

Whole(i) == [k |-> "num", n |-> i, d |-> 1]

Zero == Whole(0)

NaN == [k |-> "nan", n |-> 0, d |-> 1]

Infinity(s) == [k |-> "inf", n |-> s, d |-> 1]

undefined == [k |-> "undef", n |-> 0, d |-> 1]

\* ToNumber: undefined converts to NaN in arithmetic
ToNumber(a) == IF a.k = "undef" THEN NaN ELSE a

SignOf(a) == Sign(a.n)

\* The operators below take their arguments by value: each argument is
\* evaluated once and bound before the body is evaluated.
Value1(Op(_), a0) == CHOOSE r \in {Op(a) : a \in {ToNumber(a0)}} : TRUE

Value2(Op(_, _), a0, b0) ==
  CHOOSE r \in {Op(a, b) : a \in {ToNumber(a0)}, b \in {ToNumber(b0)}} : TRUE

NegV(a) == IF a.k = "nan" THEN NaN ELSE [a EXCEPT !.n = -a.n]

Neg(a) == Value1(NegV, a)

AddV(a, b) ==
  IF a.k = "nan" \/ b.k = "nan" THEN NaN
  ELSE IF a.k = "inf" /\ b.k = "inf" THEN (IF a.n = b.n THEN a ELSE NaN)
  ELSE IF a.k = "inf" THEN a
  ELSE IF b.k = "inf" THEN b
  ELSE LET g == GCD(a.d, b.d)
       IN Num(a.n * (b.d \div g) + b.n * (a.d \div g), (a.d \div g) * b.d)

Add(a, b) == Value2(AddV, a, b)

Sub(a, b) == Add(a, Neg(b))

MulV(a, b) ==
  IF a.k = "nan" \/ b.k = "nan" THEN NaN
  ELSE IF a.k = "inf" \/ b.k = "inf"
       THEN (IF SignOf(a) * SignOf(b) = 0 THEN NaN ELSE Infinity(SignOf(a) * SignOf(b)))
  ELSE LET g == GCD(Abs(a.n), b.d)
           h == GCD(Abs(b.n), a.d)
       IN Num((a.n \div g) * (b.n \div h), (a.d \div h) * (b.d \div g))

Mul(a, b) == Value2(MulV, a, b)

\* IEEE division: x/0 is +-Infinity, 0/0 is NaN
DivV(a, b) ==
  IF a.k = "nan" \/ b.k = "nan" THEN NaN
  ELSE IF a.k = "inf" /\ b.k = "inf" THEN NaN
  ELSE IF a.k = "inf" THEN Infinity(IF SignOf(b) < 0 THEN -a.n ELSE a.n)
  ELSE IF b.k = "inf" THEN Zero
  ELSE IF b.n = 0 THEN (IF a.n = 0 THEN NaN ELSE Infinity(SignOf(a)))
  ELSE LET g == GCD(Abs(a.n), Abs(b.n))
           h == GCD(a.d, b.d)
       IN Num((a.n \div g) * (b.d \div h), (a.d \div h) * (b.n \div g))

Div(a, b) == Value2(DivV, a, b)

\* a < b ; any comparison with NaN is false
LtV(a, b) ==
  IF a.k = "nan" \/ b.k = "nan" THEN FALSE
  ELSE IF a.k = "inf" /\ b.k = "inf" THEN a.n < b.n
  ELSE IF a.k = "inf" THEN a.n < 0
  ELSE IF b.k = "inf" THEN b.n > 0
  ELSE LET g == GCD(a.d, b.d)
       IN a.n * (b.d \div g) < b.n * (a.d \div g)

Lt(a, b) == Value2(LtV, a, b)

Gt(a, b) == Lt(b, a)

\* a <= b
LeV(a, b) == a.k # "nan" /\ b.k # "nan" /\ ~LtV(b, a)

Le(a, b) == Value2(LeV, a, b)

\* Math.min / Math.max of two arguments: NaN if either is NaN
MathMinV(a, b) == IF a.k = "nan" \/ b.k = "nan" THEN NaN ELSE IF LtV(b, a) THEN b ELSE a

MathMin(a, b) == Value2(MathMinV, a, b)

MathMaxV(a, b) == IF a.k = "nan" \/ b.k = "nan" THEN NaN ELSE IF LtV(a, b) THEN b ELSE a

MathMax(a, b) == Value2(MathMaxV, a, b)

Range(f) == {f[i] : i \in DOMAIN f}

OrElse(a0, b) ==
  CHOOSE r \in {IF a.k \in {"nan", "undef"} \/ (a.k = "num" /\ a.n = 0) THEN b ELSE a
                  : a \in {a0}} : TRUE

(***************************************************************************)
(* Least-squares regression                                                *)
(***************************************************************************)
\* points.reduce((acc, p) => acc + term(p), 0), over the first i terms
RECURSIVE ReduceSum(_, _)
ReduceSum(terms, i) ==
  IF i = 0 THEN Zero ELSE Add(ReduceSum(terms, i - 1), terms[i])

SumX(points) == ReduceSum([i \in 1..Len(points) |-> points[i].x], Len(points))

SumY(points) == ReduceSum([i \in 1..Len(points) |-> points[i].y], Len(points))

SumXY(points) ==
  ReduceSum([i \in 1..Len(points) |-> Mul(points[i].x, points[i].y)], Len(points))

SumXX(points) ==
  ReduceSum([i \in 1..Len(points) |-> Mul(points[i].x, points[i].x)], Len(points))

Denominator(points) ==
  Sub(Mul(Whole(Len(points)), SumXX(points)), Mul(SumX(points), SumX(points)))

\* regressionLine with the intercept taken as the mean of y
regressionLineMeanIntercept(points) ==
  LET n == Whole(Len(points))
      sumX == SumX(points)
      sumY == SumY(points)
      sumXY == SumXY(points)
      denominator == Denominator(points)
  IN IF denominator = Zero
     THEN [slope |-> Zero, intercept |-> Zero]
     ELSE LET slope == Div(Sub(Mul(n, sumXY), Mul(sumX, sumY)), denominator)
              intercept == Div(sumY, n)
          IN [slope |-> slope, intercept |-> intercept]

\* DurationCompletionScatter.jsx, regressionLine
regressionLine(points) ==
  LET n == Whole(Len(points))
      sumX == SumX(points)
      sumY == SumY(points)
      sumXY == SumXY(points)
      denominator == Denominator(points)
  IN IF denominator = Zero
     THEN [slope |-> Zero, intercept |-> Zero]
     ELSE LET slope == Div(Sub(Mul(n, sumXY), Mul(sumX, sumY)), denominator)
              intercept == Div(Sub(sumY, Mul(slope, sumX)), n)
          IN [slope |-> slope, intercept |-> intercept]

\* calculateRegression without the guard on the denominator
calculateRegressionUnguarded(points) ==
  LET n == Whole(Len(points))
      sumX == SumX(points)
      sumY == SumY(points)
      sumXY == SumXY(points)
      denominator == Denominator(points)
      slope == Div(Sub(Mul(n, sumXY), Mul(sumX, sumY)), denominator)
      intercept == Div(Sub(sumY, Mul(slope, sumX)), n)
  IN [slope |-> slope, intercept |-> intercept]

\* SharesSubscribersScatter, calculateRegression
calculateRegression(points) ==
  LET n == Whole(Len(points))
      sumX == SumX(points)
      sumY == SumY(points)
      sumXY == SumXY(points)
      denominator == Denominator(points)
  IN IF denominator = Zero
     THEN [slope |-> Zero, intercept |-> OrElse(Div(sumY, n), Zero)]
     ELSE LET slope == Div(Sub(Mul(n, sumXY), Mul(sumX, sumY)), denominator)
              intercept == Div(Sub(sumY, Mul(slope, sumX)), n)
          IN [slope |-> slope, intercept |-> intercept]

(***************************************************************************)
(* d3-array and Array.prototype helpers, as the charts use them            *)
(***************************************************************************)
\* d3 min over the first i accessed values: undefined for an empty array
RECURSIVE d3min(_, _)
d3min(values, i) ==
  IF i = 0 THEN undefined
  ELSE CHOOSE r \in {IF rest = undefined \/ Lt(v, rest) THEN v ELSE rest
                       : rest \in {d3min(values, i - 1)}, v \in {values[i]}} : TRUE

\* d3 max over the first i accessed values: undefined for an empty array
RECURSIVE d3max(_, _)
d3max(values, i) ==
  IF i = 0 THEN undefined
  ELSE CHOOSE r \in {IF rest = undefined \/ Gt(v, rest) THEN v ELSE rest
                       : rest \in {d3max(values, i - 1)}, v \in {values[i]}} : TRUE

\* d3 extent: [min, max], [undefined, undefined] when empty
extent(values) == <<d3min(values, Len(values)), d3max(values, Len(values))>>

XsOf(points) == [i \in 1..Len(points) |-> points[i].x]

YsOf(points) == [i \in 1..Len(points) |-> points[i].y]

\* points.reduce((kept, point) => key(point) > key(kept) ? point : kept) with no
\* initial value, over the first i >= 1 elements: the index of the element kept
RECURSIVE ReduceKeep(_, _)
ReduceKeep(keys, i) ==
  IF i = 1 THEN 1
  ELSE CHOOSE r \in {IF Gt(keys[i], keys[kept]) THEN i ELSE kept
                       : kept \in {ReduceKeep(keys, i - 1)}} : TRUE

(***************************************************************************)
(* Chart layout                                                            *)
(***************************************************************************)
width == 640

height == 360

marginTop == 24

marginRight == 32

marginBottom == 52

marginLeft == 68

\* the default pixel ranges of the two scales
xRangeDefault == <<Whole(marginLeft), Whole(width - marginRight)>>

yRangeDefault == <<Whole(height - marginBottom), Whole(marginTop)>>

\* d3 scaleLinear().domain(domain).range(range) applied to value (no clamping);
\* a degenerate domain maps every value to the middle of the range
scaleLinear(domain, range, value) ==
  LET span == Sub(domain[2], domain[1])
      t == IF span = Zero THEN Num(1, 2) ELSE Div(Sub(value, domain[1]), span)
  IN Add(range[1], Mul(t, Sub(range[2], range[1])))

(***************************************************************************)
(* The derivations of the two scatter charts                               *)
(***************************************************************************)
\* data.map(d => ({x, y, episode})): the episode is the row's position
PointsOf(rows) == [i \in 1..Len(rows) |-> [x |-> rows[i].x, y |-> rows[i].y, episode |-> i]]

\* the number of characters of `${d.episode}` for row i: the row's episode text
\* when it carries one, else the decimal digits of its position
EpisodeChars(rows, i) ==
  IF "episodeChars" \in DOMAIN rows[i] THEN rows[i].episodeChars
  ELSE IF i < 10 THEN 1 ELSE 2

\* an x domain that starts at 0 instead of the smallest x
xDomainFromZero(points) == <<Zero, d3max(XsOf(points), Len(points))>>

\* DurationCompletionScatter: xDomain = extent(points, d => d.x)
xDomainOf(points) == extent(XsOf(points))

\* DurationCompletionScatter: yDomain = [yMin, yMax]
yDomainOf(points) ==
  LET yMin == MathMin(Num(45, 100), Sub(d3min(YsOf(points), Len(points)), Num(2, 100)))
      yMax == MathMax(Num(95, 100), Add(d3max(YsOf(points), Len(points)), Num(2, 100)))
  IN <<yMin, yMax>>

\* the regression segment over a domain
SegmentOf(regression, domain) ==
  << [x |-> domain[1], y |-> Add(Mul(regression.slope, domain[1]), regression.intercept)],
     [x |-> domain[2], y |-> Add(Mul(regression.slope, domain[2]), regression.intercept)] >>

NoResult ==
  [error |-> "none", completed |-> <<>>, xDomain |-> <<Zero, Zero>>, yDomain |-> <<Zero, Zero>>,
   regression |-> [slope |-> Zero, intercept |-> Zero],
   segment |-> <<[x |-> Zero, y |-> Zero], [x |-> Zero, y |-> Zero]>>, highlight |-> 0]

\* DurationCompletionScatter's render up to the selection of bestCompletion, with the
\* visible domains the zoom hook returned
DurationCompletionScatterRender(rows, zoomedX, zoomedY) ==
  LET points == PointsOf(rows)
      xDomain == xDomainOf(points)
      yDomain == yDomainOf(points)
      regression == regressionLine(points)
      regressionSegment == SegmentOf(regression, zoomedX)
      derived == [error |-> "none",
                  completed |-> <<"points", "extent", "useZoomPan", "scales",
                                  "regression", "ticks">>,
                  xDomain |-> xDomain, yDomain |-> yDomain,
                  regression |-> regression, segment |-> regressionSegment,
                  highlight |-> 0]
  IN IF Len(points) = 0
     THEN [derived EXCEPT !.error = "TypeError"]
     ELSE [derived EXCEPT !.completed = Append(@, "bestCompletion"),
                          !.highlight = ReduceKeep(YsOf(points), Len(points))]

\* SharesSubscribersScatter's render: the selection of topShare precedes the ticks
SharesSubscribersScatterRender(rows) ==
  LET points == PointsOf(rows)
      xDomain == xDomainOf(points)
      yDomain == <<Zero, Mul(d3max(YsOf(points), Len(points)), Num(11, 10))>>
      regression == calculateRegression(points)
      regressionLineSegment == SegmentOf(regression, xDomain)
      derived == [error |-> "none",
                  completed |-> <<"points", "extent", "scales", "regression">>,
                  xDomain |-> xDomain, yDomain |-> yDomain,
                  regression |-> regression, segment |-> regressionLineSegment,
                  highlight |-> 0]
  IN IF Len(points) = 0
     THEN [derived EXCEPT !.error = "TypeError"]
     ELSE [derived EXCEPT !.completed = @ \o <<"topShare", "ticks">>,
                          !.highlight = ReduceKeep(XsOf(points), Len(points))]

(***************************************************************************)
(* Mounting a chart on a data set                                          *)
(***************************************************************************)
MaxLen == 3

MaxX == 2

MaxY == 1

Rows == [x : {Whole(i) : i \in 0..MaxX}, y : {Whole(i) : i \in 0..MaxY}]

RowSeqs == UNION {[1..n -> Rows] : n \in 0..MaxLen}

Row(x, y) == [x |-> Whole(x), y |-> Whole(y)]

\* the synthetic linear data set (1,2),(2,4),(3,6)
LinearExample == <<Row(1, 2), Row(2, 4), Row(3, 6)>>

\* the single point (1,5)
SinglePointExample == <<Row(1, 5)>>

InitRender ==
  /\ data \in RowSeqs \cup {LinearExample, SinglePointExample}
  /\ rendered = "none"
  /\ result = NoResult
  /\ zoomLevel = Whole(1)
  /\ zoomedXDomain = xDomainOf(PointsOf(data))
  /\ zoomedYDomain = yDomainOf(PointsOf(data))
  /\ hoveredPoint = 0
  /\ pointerOver = 0
  /\ focused = 0
  /\ lastEvent = "none"
  /\ zoomBefore = Whole(1)

\* first render of <DurationCompletionScatter data={data}>: the zoom hook starts
\* at zoom level 1 on the base domains
MountDurationCompletionScatter ==
  /\ rendered = "none"
  /\ rendered' = "DurationCompletionScatter"
  /\ result' = DurationCompletionScatterRender(data, zoomedXDomain, zoomedYDomain)
  /\ lastEvent' = "mount"
  /\ UNCHANGED <<data, zoomLevel, zoomedXDomain, zoomedYDomain, hoveredPoint,
                 pointerOver, focused, zoomBefore>>

\* first render of <SharesSubscribersScatter data={data}>
MountSharesSubscribersScatter ==
  /\ rendered = "none"
  /\ rendered' = "SharesSubscribersScatter"
  /\ result' = SharesSubscribersScatterRender(data)
  /\ lastEvent' = "mount"
  /\ UNCHANGED <<data, zoomLevel, zoomedXDomain, zoomedYDomain, hoveredPoint,
                 pointerOver, focused, zoomBefore>>

NextRender == MountDurationCompletionScatter \/ MountSharesSubscribersScatter

SpecRender == InitRender /\ [][NextRender]_vars

(***************************************************************************)
(* Properties of the regression and of the render                          *)
(***************************************************************************)
Mounted == rendered # "none"

MeanY(points) == IF Len(points) = 0 THEN Zero ELSE Div(SumY(points), Whole(Len(points)))

DistinctX(points) == \E i, j \in 1..Len(points) : points[i].x # points[j].x

\* C1: whenever the least-squares denominator of the mounted chart's points is
\* zero, the chart's regression has slope 0 and intercept mean(y) (0 for no points)
C1_DegenerateIsMean ==
  (Mounted /\ "regression" \in Range(result.completed)
     /\ Denominator(PointsOf(data)) = Zero)
  => (result.regression.slope = Zero
      /\ result.regression.intercept = MeanY(PointsOf(data)))

\* the points all lie on the line through points[i] and points[j]
OnLine(points, a, b) == \A m \in 1..Len(points) : points[m].y = Add(Mul(a, points[m].x), b)

\* C2: with at least two distinct x-values the regression satisfies the normal
\* equations slope * (n*SumXX - SumX^2) = n*SumXY - SumX*SumY and
\* n * intercept + slope * SumX = SumY, and points that all lie on a line
\* y = a*x + b give slope a and intercept b
C2_LeastSquares ==
  LET points == PointsOf(data)
      n == Whole(Len(points))
      r == result.regression
  IN (Mounted /\ DistinctX(points))
     => /\ Mul(r.slope, Denominator(points))
             = Sub(Mul(n, SumXY(points)), Mul(SumX(points), SumY(points)))
        /\ Add(Mul(n, r.intercept), Mul(r.slope, SumX(points))) = SumY(points)
        /\ \A i, j \in 1..Len(points) :
             points[i].x # points[j].x
             => LET a == Div(Sub(points[j].y, points[i].y), Sub(points[j].x, points[i].x))
                    b == Sub(points[i].y, Mul(a, points[i].x))
                IN OnLine(points, a, b) => (r.slope = a /\ r.intercept = b)

\* the spec's example: (1,2),(2,4),(3,6) gives slope 2 and intercept 0
C2_Witness ==
  /\ rendered = "DurationCompletionScatter"
  /\ data = LinearExample
  /\ result.regression = [slope |-> Whole(2), intercept |-> Zero]

\* C3: mounting a chart on an empty episode sequence completes every step of the
\* derivation without raising an error
C3_EmptyInputRenders ==
  (Mounted /\ data = <<>>) => result.error = "none"

\* C4: on the empty sequence and on single-point sequences the regression step
\* completes and returns slope 0
C4_TinyInputSlopeZero ==
  (Mounted /\ Len(data) <= 1)
  => ("regression" \in Range(result.completed) /\ result.regression.slope = Zero)

C4_Witness ==
  /\ Mounted
  /\ data = SinglePointExample
  /\ result.regression.slope = Zero
  /\ "regression" \in Range(result.completed)

(***************************************************************************)
(* The zoom/pan hook (hooks/useZoomPan.js), as section 4.3 specifies it    *)
(***************************************************************************)
\* a zoom limit twice as large
maxZoomDoubled == 2 * 12

\* useZoomPan({..., maxZoom: 12})
maxZoom == 12

\* clamp(v, lo, hi)
Clamp(v, lo, hi) == MathMax(lo, MathMin(v, hi))

\* the window of width w starting at start, moved back inside the base domain
ClampWindow(start, w, base) ==
  CHOOSE window \in {<<s, Add(s, w)>> : s \in {Clamp(start, base[1], Sub(base[2], w))}} : TRUE

\* anchor-preserving zoom of one axis to newLevel: the data value under the
\* pointer keeps its pixel position, then the window is clamped to the base
ZoomAxis(domain, base, range, pointer, newLevel) ==
  LET t == Div(Sub(pointer, range[1]), Sub(range[2], range[1]))
      v == Add(domain[1], Mul(t, Sub(domain[2], domain[1])))
      w == Div(Sub(base[2], base[1]), newLevel)
  IN ClampWindow(Sub(v, Mul(t, w)), w, base)

\* pan of one axis by a pixel delta: domainDelta = pixelDelta / scaleFactor, the
\* window is shifted by the negated delta and clamped to the base
PanAxis(domain, base, range, pixelDelta) ==
  LET scaleFactor == Div(Sub(range[2], range[1]), Sub(domain[2], domain[1]))
      domainDelta == Div(pixelDelta, scaleFactor)
  IN ClampWindow(Sub(domain[1], domainDelta), Sub(domain[2], domain[1]), base)

\* the wheel handler: zoomLevel' = clamp(zoomLevel * factor, 1, maxZoom)
handleWheel(xBase, yBase, limit, factor, px, py) ==
  LET newLevel == Clamp(Mul(zoomLevel, factor), Whole(1), limit)
  IN /\ zoomLevel' = newLevel
     /\ zoomedXDomain' = ZoomAxis(zoomedXDomain, xBase, xRangeDefault, px, newLevel)
     /\ zoomedYDomain' = ZoomAxis(zoomedYDomain, yBase, yRangeDefault, py, newLevel)

\* the drag handler: no effect at zoom level 1
handleDrag(xBase, yBase, dx, dy) ==
  IF Gt(zoomLevel, Whole(1))
  THEN /\ zoomedXDomain' = PanAxis(zoomedXDomain, xBase, xRangeDefault, dx)
       /\ zoomedYDomain' = PanAxis(zoomedYDomain, yBase, yRangeDefault, dy)
       /\ UNCHANGED zoomLevel
  ELSE UNCHANGED <<zoomLevel, zoomedXDomain, zoomedYDomain>>

\* resetZoom: zoom level 1 on the base domains
resetZoom(xBase, yBase) ==
  /\ zoomLevel' = Whole(1)
  /\ zoomedXDomain' = xBase
  /\ zoomedYDomain' = yBase

(***************************************************************************)
(* The tooltip of the duration/completion scatter                          *)
(***************************************************************************)
padding == 12

lineHeight == 18

\* the number of decimal digits of a natural number
RECURSIVE Digits(_)
Digits(i) == IF i < 10 THEN 1 ELSE 1 + Digits(i \div 10)

\* the length of v.toFixed(1): sign, integer digits, the point and one decimal
ToFixed1Chars(v) ==
  LET tenths == (2 * 10 * Abs(v.n) + v.d) \div (2 * v.d)
  IN (IF v.n < 0 THEN 1 ELSE 0) + Digits(tenths \div 10) + 2

\* the lengths of the three lines of the tooltip of a point
LineLengths(point, episodeChars) ==
  << 8 + episodeChars,
     10 + ToFixed1Chars(point.x) + 4,
     12 + ToFixed1Chars(Mul(point.y, Whole(100))) + 1 >>

\* Math.max(...lines.map(line => line.length * 6.2), 150)
EstimatedWidth(lengths) ==
  LET w(i) == Mul(Whole(lengths[i]), Num(62, 10))
  IN MathMax(MathMax(MathMax(w(1), w(2)), w(3)), Whole(150))

NoTooltip ==
  [shown |-> FALSE, pointX |-> Zero, pointY |-> Zero, preX |-> Zero, preY |-> Zero,
   x |-> Zero, y |-> Zero, width |-> Zero, height |-> Zero]

\* the tooltip origin without the final clamp
TooltipOriginUnclamped(pointX, pointY, tooltipWidth, tooltipHeight) ==
  LET x0 == Add(pointX, Whole(12))
      y0 == Sub(Sub(pointY, tooltipHeight), Whole(12))
      x1 == IF Gt(Add(x0, tooltipWidth), Whole(width - marginRight))
            THEN Sub(Sub(pointX, tooltipWidth), Whole(12)) ELSE x0
      y1 == IF Lt(y0, Whole(marginTop)) THEN Add(pointY, Whole(12)) ELSE y0
  IN [preX |-> x1, preY |-> y1, x |-> x1, y |-> y1]

\* the tooltip origin with the vertical flip taken only together with the horizontal
TooltipOriginCoupledFlips(pointX, pointY, tooltipWidth, tooltipHeight) ==
  LET x0 == Add(pointX, Whole(12))
      y0 == Sub(Sub(pointY, tooltipHeight), Whole(12))
      flipX == Gt(Add(x0, tooltipWidth), Whole(width - marginRight))
      x1 == IF flipX THEN Sub(Sub(pointX, tooltipWidth), Whole(12)) ELSE x0
      y1 == IF flipX /\ Lt(y0, Whole(marginTop)) THEN Add(pointY, Whole(12)) ELSE y0
  IN [preX |-> x1, preY |-> y1,
      x |-> MathMax(Whole(marginLeft), x1), y |-> MathMax(Whole(marginTop - 4), y1)]

\* the tooltip box origin for a point at pixel (pointX, pointY): preX, preY are
\* tooltipX, tooltipY after the two flips, x, y after the final clamp
TooltipOrigin(pointX, pointY, tooltipWidth, tooltipHeight) ==
  LET x0 == Add(pointX, Whole(12))
      y0 == Sub(Sub(pointY, tooltipHeight), Whole(12))
      x1 == IF Gt(Add(x0, tooltipWidth), Whole(width - marginRight))
            THEN Sub(Sub(pointX, tooltipWidth), Whole(12)) ELSE x0
      y1 == IF Lt(y0, Whole(marginTop)) THEN Add(pointY, Whole(12)) ELSE y0
  IN [preX |-> x1, preY |-> y1,
      x |-> MathMax(Whole(marginLeft), x1), y |-> MathMax(Whole(marginTop - 4), y1)]

\* the tooltip the render derives from hoveredPoint and the two scales
tooltip(rows, hovered, zoomedX, zoomedY) ==
  IF hovered = 0 THEN NoTooltip
  ELSE LET point == PointsOf(rows)[hovered]
           pointX == scaleLinear(zoomedX, xRangeDefault, point.x)
           pointY == scaleLinear(zoomedY, yRangeDefault, point.y)
           estimatedWidth == EstimatedWidth(LineLengths(point, EpisodeChars(rows, hovered)))
           tooltipWidth == MathMin(estimatedWidth, Whole(width - marginLeft - marginRight))
           tooltipHeight == Whole(3 * lineHeight + padding)
           origin == TooltipOrigin(pointX, pointY, tooltipWidth, tooltipHeight)
       IN [shown |-> TRUE, pointX |-> pointX, pointY |-> pointY,
           preX |-> origin.preX, preY |-> origin.preY, x |-> origin.x, y |-> origin.y,
           width |-> tooltipWidth, height |-> tooltipHeight]

(***************************************************************************)
(* The mounted duration/completion scatter under user events               *)
(***************************************************************************)
Episode(x, yPercent, chars) ==
  [x |-> Whole(x), y |-> Num(yPercent, 100), episodeChars |-> chars]

\* three episodes inside the default completion band, one with a long episode text
EpisodesInBand == <<Episode(20, 50, 1), Episode(30, 90, 1), Episode(50, 70, 30)>>

\* two episodes outside the default completion band, one with a very long text
EpisodesOutOfBand == <<Episode(10, 40, 100), Episode(40, 97, 2)>>

ChartData == {EpisodesInBand, EpisodesOutOfBand}

\* wheel factors, from a gentle notch to an extreme gesture
ZoomFactors == {Num(1, 4), Whole(4), Num(1, 1000), Whole(1000)}

\* pointer positions on the interaction layer: two opposite corners
PointerPositions ==
  { <<Whole(marginLeft), Whole(height - marginBottom)>>,
    <<Whole(width - marginRight), Whole(marginTop)>> }

\* drag deltas in pixels: the plot's width or height on one axis, and far beyond
\* the plot on both
DragDeltas ==
  { <<Whole(width - marginLeft - marginRight), Zero>>,
    <<Whole(marginLeft + marginRight - width), Zero>>,
    <<Zero, Whole(height - marginTop - marginBottom)>>,
    <<Zero, Whole(marginTop + marginBottom - height)>>,
    <<Whole(10000), Whole(10000)>>, <<Whole(-10000), Whole(-10000)>> }

xBaseDomain == xDomainOf(PointsOf(data))

yBaseDomain == yDomainOf(PointsOf(data))

InitChart ==
  /\ data \in ChartData
  /\ rendered = "DurationCompletionScatter"
  /\ zoomLevel = Whole(1)
  /\ zoomedXDomain = xBaseDomain
  /\ zoomedYDomain = yBaseDomain
  /\ result = DurationCompletionScatterRender(data, zoomedXDomain, zoomedYDomain)
  /\ hoveredPoint = 0
  /\ pointerOver = 0
  /\ focused = 0
  /\ lastEvent = "mount"
  /\ zoomBefore = Whole(1)

\* every event handler is followed by a render with the new state; the data prop
\* is unchanged, so of what the render derives only the regression segment,
\* drawn over the visible x window, can differ from the previous render
Rerender ==
  /\ result' = [result EXCEPT !.segment = SegmentOf(result.regression, zoomedXDomain')]
  /\ UNCHANGED <<data, rendered>>

\* wheel over the interaction layer (zoomRef)
Wheel ==
  \E factor \in ZoomFactors, p \in PointerPositions :
    /\ handleWheel(xBaseDomain, yBaseDomain, Whole(maxZoom), factor, p[1], p[2])
    /\ lastEvent' = "wheel"
    /\ zoomBefore' = zoomLevel
    /\ UNCHANGED <<hoveredPoint, pointerOver, focused>>
    /\ Rerender

\* drag over the interaction layer (zoomRef)
Drag ==
  \E d \in DragDeltas :
    /\ handleDrag(xBaseDomain, yBaseDomain, d[1], d[2])
    /\ lastEvent' = "drag"
    /\ zoomBefore' = zoomLevel
    /\ UNCHANGED <<hoveredPoint, pointerOver, focused>>
    /\ Rerender

\* a double click that is not wired to the reset
onDoubleClickUnwired == UNCHANGED <<zoomLevel, zoomedXDomain, zoomedYDomain>>

\* onDoubleClick={resetZoom}
onDoubleClick == resetZoom(xBaseDomain, yBaseDomain)

DoubleClick ==
  /\ onDoubleClick
  /\ lastEvent' = "doubleclick"
  /\ zoomBefore' = zoomLevel
  /\ UNCHANGED <<hoveredPoint, pointerOver, focused>>
  /\ Rerender

\* the pointer moves onto the circle of point i: the browser dispatches mouseenter
\* on it, onMouseEnter={() => setHoveredPoint(point)}
MouseEnter ==
  \E i \in 1..Len(data) :
    /\ pointerOver = 0
    /\ pointerOver' = i
    /\ hoveredPoint' = i
    /\ UNCHANGED <<focused, zoomLevel, zoomedXDomain, zoomedYDomain, lastEvent, zoomBefore>>
    /\ Rerender

\* the pointer moves off the circle it was over: the browser dispatches mouseleave
\* on it, onMouseLeave={() => setHoveredPoint(null)}
MouseLeave ==
  /\ pointerOver # 0
  /\ pointerOver' = 0
  /\ hoveredPoint' = 0
  /\ UNCHANGED <<focused, zoomLevel, zoomedXDomain, zoomedYDomain, lastEvent, zoomBefore>>
  /\ Rerender

\* the circle of point i (tabIndex={0}) receives keyboard focus: the browser
\* dispatches focus on it, onFocus={() => setHoveredPoint(point)}
Focus ==
  \E i \in 1..Len(data) :
    /\ focused = 0
    /\ focused' = i
    /\ hoveredPoint' = i
    /\ UNCHANGED <<pointerOver, zoomLevel, zoomedXDomain, zoomedYDomain, lastEvent, zoomBefore>>
    /\ Rerender

\* the focused circle loses keyboard focus: the browser dispatches blur on it,
\* onBlur={() => setHoveredPoint(null)}
Blur ==
  /\ focused # 0
  /\ focused' = 0
  /\ hoveredPoint' = 0
  /\ UNCHANGED <<pointerOver, zoomLevel, zoomedXDomain, zoomedYDomain, lastEvent, zoomBefore>>
  /\ Rerender

\* the gestures on the interaction layer, with the pointer on that layer and so
\* over no circle, interleaved with keyboard focus on the circles
NextChart == Wheel \/ Drag \/ DoubleClick \/ Focus \/ Blur

SpecChart == InitChart /\ [][NextChart]_vars

\* the data sets of the hover specification: every non-empty table of rows, and
\* the episode tables
HoverData == {rows \in RowSeqs : Len(rows) >= 1} \cup ChartData

\* the mounted chart at zoom level 1, pointer over no circle, no circle focused
InitHover ==
  /\ data \in HoverData
  /\ rendered = "DurationCompletionScatter"
  /\ zoomLevel = Whole(1)
  /\ zoomedXDomain = xBaseDomain
  /\ zoomedYDomain = yBaseDomain
  /\ result = DurationCompletionScatterRender(data, zoomedXDomain, zoomedYDomain)
  /\ hoveredPoint = 0
  /\ pointerOver = 0
  /\ focused = 0
  /\ lastEvent = "mount"
  /\ zoomBefore = Whole(1)

\* every interleaving of pointer and keyboard-focus events on the circles
NextHover == MouseEnter \/ MouseLeave \/ Focus \/ Blur

SpecHover == InitHover /\ [][NextHover]_vars

\* the tooltip of the current state
Tooltip == tooltip(data, hoveredPoint, zoomedXDomain, zoomedYDomain)

(***************************************************************************)
(* Properties of the tooltip                                               *)
(***************************************************************************)
innerLeft == Whole(marginLeft)

innerRight == Whole(width - marginRight)

innerTop == Whole(marginTop)

innerBottom == Whole(height - marginBottom)

\* C5: whenever a tooltip is shown, its box lies within the chart's inner bounds
C5_TooltipInsideInnerBounds ==
  Tooltip.shown
  => /\ Le(innerLeft, Tooltip.x)
     /\ Le(Add(Tooltip.x, Tooltip.width), innerRight)
     /\ Le(innerTop, Tooltip.y)
     /\ Le(Add(Tooltip.y, Tooltip.height), innerBottom)

PassesRight == Gt(Add(Add(Tooltip.pointX, Whole(12)), Tooltip.width), innerRight)

PassesTop == Lt(Sub(Sub(Tooltip.pointY, Tooltip.height), Whole(12)), innerTop)

\* C10: before the clamp the origin is right of the point unless the box would
\* pass the right inner edge (then left of it) and above the point unless it
\* would pass the top inner edge (then below it), each flip decided on its own
C10_FlipsIndependent ==
  Tooltip.shown
  => /\ Tooltip.preX = IF PassesRight
                       THEN Sub(Sub(Tooltip.pointX, Tooltip.width), Whole(12))
                       ELSE Add(Tooltip.pointX, Whole(12))
     /\ Tooltip.preY = IF PassesTop
                       THEN Add(Tooltip.pointY, Whole(12))
                       ELSE Sub(Sub(Tooltip.pointY, Tooltip.height), Whole(12))

\* a tooltip flipped below its point but not to its left
C10_Witness ==
  /\ Tooltip.shown
  /\ PassesTop /\ ~PassesRight
  /\ Tooltip.preX = Add(Tooltip.pointX, Whole(12))
  /\ Tooltip.preY = Add(Tooltip.pointY, Whole(12))

(***************************************************************************)
(* Properties of the zoom state                                            *)
(***************************************************************************)
\* C6: the zoom level stays within [1, 12]
C6_ZoomLevelInRange ==
  rendered = "DurationCompletionScatter"
  => (Le(Whole(1), zoomLevel) /\ Le(zoomLevel, Whole(12)))

\* a wheel gesture at the largest zoom level that left the level at 12
C6_Witness ==
  /\ lastEvent = "wheel"
  /\ zoomBefore = Whole(12)
  /\ zoomLevel = Whole(12)

\* C7: the visible x window lies between the smallest and the largest x of the
\* data, the visible y window between min(0.45, min y - 0.02) and
\* max(0.95, max y + 0.02)
C7_WindowInsideBase ==
  LET points == PointsOf(data)
  IN rendered = "DurationCompletionScatter"
     => /\ \E i \in 1..Len(points) : Le(points[i].x, zoomedXDomain[1])
        /\ Le(zoomedXDomain[1], zoomedXDomain[2])
        /\ \E i \in 1..Len(points) : Le(zoomedXDomain[2], points[i].x)
        /\ \/ Le(Num(45, 100), zoomedYDomain[1])
           \/ \E i \in 1..Len(points) : Le(Sub(points[i].y, Num(2, 100)), zoomedYDomain[1])
        /\ Le(zoomedYDomain[1], zoomedYDomain[2])
        /\ \/ Le(zoomedYDomain[2], Num(95, 100))
           \/ \E i \in 1..Len(points) : Le(zoomedYDomain[2], Add(points[i].y, Num(2, 100)))

\* a drag far beyond the plot leaves a zoomed window resting on the base's edge
C7_Witness ==
  /\ lastEvent = "drag"
  /\ Gt(zoomLevel, Whole(1))
  /\ zoomedXDomain[1] = xBaseDomain[1]
  /\ zoomedXDomain[2] # xBaseDomain[2]
  /\ zoomedYDomain[2] = yBaseDomain[2]

\* C8: a double click is always possible, and after one the zoom level is 1 and
\* the visible domains are the base domains
C8_ResetRestoresBase ==
  rendered = "DurationCompletionScatter"
  => /\ ENABLED DoubleClick
     /\ lastEvent = "doubleclick"
        => /\ zoomLevel = Whole(1)
           /\ zoomedXDomain = xBaseDomain
           /\ zoomedYDomain = yBaseDomain

\* a reset from the largest zoom level
C8_Witness ==
  /\ lastEvent = "doubleclick"
  /\ zoomBefore = Whole(12)
  /\ zoomLevel = Whole(1)
  /\ zoomedXDomain = xBaseDomain

(***************************************************************************)
(* Hover and focus                                                         *)
(***************************************************************************)

\* C11: under every interleaving of mouse-enter, mouse-leave, focus and blur on
\* the circles, a tooltip is shown (hoveredPoint is non-null) whenever some
\* point is under the mouse pointer or holds keyboard focus
C11_TooltipWhilePointedOrFocused ==
  (pointerOver # 0 \/ focused # 0) => (hoveredPoint # 0 /\ Tooltip.shown)

\* the pointer is over one point after another point was focused and blurred:
\* the state of the sequence mouse-enter A, focus B, blur B
C11_PointerOverAfterBlur ==
  pointerOver # 0 /\ focused = 0 /\ hoveredPoint = 0

====
